---- MODULE Spec2Model ----
(***************************************************************************)
(* A model of email-rotation/email_about_issues.py: the notification       *)
(* reconciler (run_script), the exhaustion gate                            *)
(* (maybe_email_about_rotation_end) and the invocation (main) that chains  *)
(* them through the persisted ScriptState.                                 *)
(*                                                                         *)
(* Timestamps are whole seconds.  GHSA ids are naturals, ordered as the    *)
(* id strings are; a collaborator list is kept as the set of its logins    *)
(* (the code only asks whether any login is on call).                      *)
(***************************************************************************)
EXTENDS Integers, Sequences, FiniteSets, TLC

VARIABLES
    clock,              \* time.time(): invocation.now_timestamp
    github_advisories,  \* the unpublished (draft/triage) advisories on GitHub
    rotation_state,     \* RotationState | None, as load_rotation_state gives it
    dry_run,            \* --dry-run: invocation.email_info is None
    script_state,       \* the ScriptState handed to the call
    new_script_state,   \* the ScriptState the call returned
    emails,             \* the advisory sends that were asked for
    prev_emails,        \* the advisory sends of the call before this one
    alerts,             \* the schedule-running-short sends that were asked for
    prev_alerts,        \* the alert sends of the call before this one
    state_file,         \* the persisted ScriptState (--state-file)
    tmp_file,           \* state_file.with_suffix(".tmp")
    write_to_file,      \* the path main saved the new state to, None if none
    skipped_on_call,    \* open ids a real run skipped for a collaborator on call
    delivered,          \* per id: successful notifications while it stayed open
    failed_before,      \* ids whose send failed in the invocation before this one
    prev_clock,         \* now_timestamp of the call before this one
    prior_rotations,    \* the rotations of the rotation file, oldest first
    members,            \* the members file: the list of people to schedule
    rotation_length_weeks,    \* --rotation-length-weeks
    people_per_rotation,      \* --people-per-rotation
    when,                     \* the time the schedule is asked to cover
    least_recent_assignees,   \* the generator's deque
    next_rotation_start_time, \* the generator's next start time
    generated,          \* the rotations the generator has yielded
    rotations_needed,   \* what calculate_rotations_to_cover returned
    pc                  \* position of the caller

vars == <<clock, github_advisories, rotation_state, dry_run, script_state,
          new_script_state, emails, prev_emails, alerts, prev_alerts,
          state_file, tmp_file, write_to_file, skipped_on_call, delivered,
          failed_before, prev_clock,
          prior_rotations, members, rotation_length_weeks,
          people_per_rotation, when, least_recent_assignees,
          next_rotation_start_time, generated, rotations_needed, pc>>

(* The variables of the rotation file's extension, and of the advisory
   mailer, each left alone by the other's steps *)
extendVars ==
    <<prior_rotations, members, rotation_length_weeks, people_per_rotation,
      when, least_recent_assignees, next_rotation_start_time, generated,
      rotations_needed>>
emailVars ==
    <<github_advisories, rotation_state, dry_run, script_state,
      new_script_state, emails, prev_emails, alerts, prev_alerts, state_file,
      tmp_file, write_to_file, skipped_on_call, delivered, failed_before,
      prev_clock>>

(* The rotation file's extension is not running *)
ExtendUnused ==
    /\ prior_rotations = <<>>
    /\ members = <<>>
    /\ rotation_length_weeks = 0
    /\ people_per_rotation = 0
    /\ when = 0
    /\ least_recent_assignees = <<>>
    /\ next_rotation_start_time = 0
    /\ generated = <<>>
    /\ rotations_needed = <<>>


----------------------------------------------------------------------------
(* Bounds of the model *)

MaxAdvisories == 2
MaxHalfDays == 3
MaxTracked == 1
MaxDays == 2
MaxRotations == 4

(* Program constants *)

SECONDS_BEFORE_ROTATION_LIST_END_TO_NAG == 14 * 24 * 60 * 60
SECONDS_BETWEEN_ROTATION_REFRESH_EMAILS == 24 * 60 * 60

(* Optional[T]: None, or Some(x) holding x *)
None == <<>>
Some(x) == <<x>>

GhsaIds == 1..MaxAdvisories
People == <<"carol", "dave">>
PeopleSet == {People[i] : i \in 1..Len(People)}
Recipients == {"security-list"}
RepoName == "llvm/llvm-security-repo"

----------------------------------------------------------------------------
(* Data *)

ScriptState(seen, last_alert) ==
    [seen_advisories |-> seen, last_alert_about_rotation |-> last_alert]

SecurityAdvisory(id, collaborators) ==
    [id |-> id, title |-> <<"title", id>>, collaborators |-> collaborators]

RotationState(all, current, final) ==
    [all_members |-> all, current_members |-> current,
     final_rotation_start |-> final]

ScriptInvocation(now, email_info) ==
    [repo_name |-> RepoName, now_timestamp |-> now, email_info |-> email_info]

EmailInfo(dry) == IF dry THEN None ELSE Some([recipient |-> "security-list"])

SeqToSet(s) == {s[i] : i \in 1..Len(s)}

(* What a call returns or raises *)
Returns(value) == [raised |-> "", value |-> value]
Raises(error) == [raised |-> error, value |-> 0]

(* The elements of S as a list in ascending order of key[x] (keys distinct) *)
RECURSIVE SortedBy(_, _)
SortedBy(S, key) ==
    IF S = {} THEN <<>>
    ELSE LET m == CHOOSE x \in S : \A y \in S \ {x} : key[x] < key[y]
         IN  <<m>> \o SortedBy(S \ {m}, key)

NameRank(p) == CHOOSE i \in 1..Len(People) : People[i] = p

(* sorted(rotation_state.current_members) *)
SortedMembers(current_members) ==
    SortedBy(current_members, [p \in current_members |-> NameRank(p)])

(* list_unpublished_security_advisories: the fetched advisories, sorted by id *)
list_unpublished_security_advisories(advisories) ==
    SortedBy(advisories, [a \in advisories |-> a.id])

----------------------------------------------------------------------------
(* Sending *)

(* try_email_llvm_security_team: the message handed to SMTP, with the
   outcome the transport reported (True: sent; False: any exception). *)
try_email_llvm_security_team(email_recipient, subject, body, ok) ==
    [to |-> email_recipient, subject |-> subject, body |-> body, ok |-> ok]

(* Mutant: only the first on-call member is mentioned *)
email_about_advisory_FirstOnly(email_info, repo_name, advisory, oncall_members, ok) ==
    [to |-> email_info.recipient,
     subject |-> <<"New security advisory", repo_name, advisory.title>>,
     body |-> [oncall |-> <<oncall_members[1]>>, advisory |-> advisory.id],
     ok |-> ok]

(* email_about_advisory: To is the configured recipient; the subject carries
   the advisory's title, the body the on-call members and the advisory's id. *)
email_about_advisory(email_info, repo_name, advisory, oncall_members, ok) ==
    try_email_llvm_security_team(
        email_info.recipient,
        <<"New security advisory", repo_name, advisory.title>>,
        [oncall |-> oncall_members, advisory |-> advisory.id],
        ok)

----------------------------------------------------------------------------
(* Fetching *)

max_retries == 3

(* What GitHub answers to the successive GETs of one request: resp.ok *)
Responses == [1..max_retries + 1 -> BOOLEAN]

(* Mutant: the first failed GET is final *)
RECURSIVE RetryLoop_NoRetry(_, _)
RetryLoop_NoRetry(responses, i) ==
    IF responses[i + 1] THEN Returns(i) ELSE Raises("HTTPError")

(* The loop of requests_get_with_retry from its i-th turn on: the response
   is returned when it is ok; raise_for_status raises once i >= max_retries *)
RECURSIVE RetryLoop(_, _)
RetryLoop(responses, i) ==
    IF responses[i + 1] THEN Returns(i)
    ELSE IF i >= max_retries THEN Raises("HTTPError")
    ELSE RetryLoop(responses, i + 1)

requests_get_with_retry(responses) == RetryLoop(responses, 0)

(* The fetch can end either way *)
FetchReturns ==
    \E responses \in Responses : requests_get_with_retry(responses).raised = ""
FetchRaises ==
    \E responses \in Responses : requests_get_with_retry(responses).raised # ""

----------------------------------------------------------------------------
(* run_script *)

has_rotation_member(advisory, rotation) ==
    \E member \in advisory.collaborators : member \in rotation.current_members

(* Mutant: the seen set is not consulted *)
SkipAdvisory_IgnoreSeen(advisory, state, rotation) ==
    has_rotation_member(advisory, rotation)

(* The two `continue`s that skip an advisory before any dry-run test *)
SkipAdvisory(advisory, state, rotation) ==
    \/ advisory.id \in SeqToSet(state.seen_advisories)
    \/ has_rotation_member(advisory, rotation)

(* Mutant: the loop stops at the first failed send *)
RECURSIVE AdvisoryLoop_StopOnFailure(_, _, _, _, _, _)
AdvisoryLoop_StopOnFailure(i, invocation, state, rotation, draft, send_ok) ==
    IF i > Len(draft) THEN <<>>
    ELSE LET advisory == draft[i]
             rest == AdvisoryLoop_StopOnFailure(i + 1, invocation, state,
                                                rotation, draft, send_ok)
         IN  IF SkipAdvisory(advisory, state, rotation) THEN rest
             ELSE IF invocation.email_info = None THEN rest
             ELSE <<email_about_advisory(
                        invocation.email_info[1], invocation.repo_name, advisory,
                        SortedMembers(rotation.current_members),
                        send_ok[advisory.id])>>
                  \o (IF send_ok[advisory.id] THEN rest ELSE <<>>)

(* The loop over draft_security_advisories from index i on: the sends it
   makes, in order.  send_ok[id] is the outcome of the send for id. *)
RECURSIVE AdvisoryLoop(_, _, _, _, _, _)
AdvisoryLoop(i, invocation, state, rotation, draft, send_ok) ==
    IF i > Len(draft) THEN <<>>
    ELSE LET advisory == draft[i]
             rest == AdvisoryLoop(i + 1, invocation, state, rotation, draft, send_ok)
         IN  IF SkipAdvisory(advisory, state, rotation) THEN rest
             ELSE IF invocation.email_info = None THEN rest
             ELSE <<email_about_advisory(
                        invocation.email_info[1], invocation.repo_name, advisory,
                        SortedMembers(rotation.current_members),
                        send_ok[advisory.id])>> \o rest

(* failed_alerts_for_advisories *)
FailedAlerts(log) == {log[i].body.advisory : i \in {j \in 1..Len(log) : ~log[j].ok}}

(* Mutant: failed sends are recorded as seen too *)
SeenAfterRun_KeepFailed(draft, failed) ==
    SortSeq([i \in 1..Len(draft) |-> draft[i].id], LAMBDA a, b : a < b)

(* sorted(x.id for x in draft_security_advisories if x.id not in failed) *)
SeenAfterRun(draft, failed) ==
    SortSeq(SelectSeq([i \in 1..Len(draft) |-> draft[i].id],
                      LAMBDA id : id \notin failed),
            LAMBDA a, b : a < b)

(* run_script: draft_security_advisories and the sends made over it are
   locals, each bound once; the result is the new state and the sends. *)
run_script(invocation, state, rotation, advisories, send_ok) ==
    CHOOSE result \in
        UNION {{[state |-> [state EXCEPT !.seen_advisories =
                               SeenAfterRun(draft, FailedAlerts(log))],
                 emails |-> log] :
                   log \in {AdvisoryLoop(1, invocation, state, rotation, draft, send_ok)}} :
               draft \in {list_unpublished_security_advisories(advisories)}} : TRUE

----------------------------------------------------------------------------
(* Inputs *)

(* Sets of advisories with distinct ids, each with any collaborators *)
AdvisorySets ==
    UNION {{{SecurityAdvisory(i, c[i]) : i \in ids} : c \in [ids -> SUBSET PeopleSet]}
           : ids \in SUBSET GhsaIds}

OnCallSets == (SUBSET PeopleSet) \ {{}}

SeenLists == UNION {[1..n -> GhsaIds] : n \in 0..MaxAdvisories}

SendOutcomes == [GhsaIds -> BOOLEAN]

NoDelivery == [id \in GhsaIds |-> 0]

----------------------------------------------------------------------------
(* SpecRun: run_script applied to any input, then once more to its result *)

RunInit ==
    /\ clock = 0
    /\ github_advisories \in AdvisorySets
    /\ rotation_state \in {Some(RotationState(PeopleSet, c, 0)) : c \in OnCallSets}
    /\ dry_run \in BOOLEAN
    /\ script_state \in {ScriptState(s, a) :
                            s \in SeenLists,
                            a \in {None, Some(SECONDS_BETWEEN_ROTATION_REFRESH_EMAILS)}}
    /\ new_script_state = script_state
    /\ emails = <<>>
    /\ prev_emails = <<>>
    /\ alerts = <<>>
    /\ prev_alerts = <<>>
    /\ state_file = None
    /\ tmp_file = None
    /\ write_to_file = None
    /\ skipped_on_call = {}
    /\ delivered = NoDelivery
    /\ failed_before = {}
    /\ prev_clock = clock
    /\ ExtendUnused
    /\ pc = "call"

RunScript ==
    /\ pc = "call"
    /\ \E send_ok \in SendOutcomes :
         LET r == run_script(ScriptInvocation(clock, EmailInfo(dry_run)),
                             script_state, rotation_state[1], github_advisories,
                             send_ok)
         IN  /\ new_script_state' = r.state
             /\ emails' = r.emails
    /\ pc' = "ret"
    /\ UNCHANGED <<clock, github_advisories, rotation_state, dry_run,
                   script_state, prev_emails, alerts, prev_alerts,
                   state_file, tmp_file, write_to_file, skipped_on_call,
                   delivered, failed_before, prev_clock>>
    /\ UNCHANGED extendVars

RunScriptAgain ==
    /\ pc = "ret"
    /\ \E send_ok \in SendOutcomes :
         LET r == run_script(ScriptInvocation(clock, EmailInfo(dry_run)),
                             new_script_state, rotation_state[1], github_advisories,
                             send_ok)
         IN  /\ new_script_state' = r.state
             /\ emails' = r.emails
    /\ script_state' = new_script_state
    /\ prev_emails' = emails
    /\ pc' = "ret2"
    /\ UNCHANGED <<clock, github_advisories, rotation_state, dry_run,
                   alerts, prev_alerts, state_file, tmp_file, write_to_file,
                   skipped_on_call, delivered, failed_before, prev_clock>>
    /\ UNCHANGED extendVars

RunNext == RunScript \/ RunScriptAgain

SpecRun == RunInit /\ [][RunNext]_vars

----------------------------------------------------------------------------
(* maybe_email_about_rotation_end *)

(* Python truthiness of a `float | None`: None and 0.0 are both false *)
Truthy(opt) == opt # None /\ opt[1] # 0

(* Mutant: the nag threshold itself counts as too early *)
TooEarly_AtThreshold(rotation, now) ==
    /\ rotation # None
    /\ rotation[1].final_rotation_start - now
           >= SECONDS_BEFORE_ROTATION_LIST_END_TO_NAG

(* Mutant: without a rotation state nothing is due *)
TooEarly_WithoutRotation(rotation, now) ==
    \/ rotation = None
    \/ rotation[1].final_rotation_start - now
           > SECONDS_BEFORE_ROTATION_LIST_END_TO_NAG

(* The first early return: the last rotation starts too far ahead *)
TooEarly(rotation, now) ==
    /\ rotation # None
    /\ rotation[1].final_rotation_start - now
           > SECONDS_BEFORE_ROTATION_LIST_END_TO_NAG

(* The second early return: already alerted within the refresh interval *)
AlertedRecently(state, now) ==
    /\ Truthy(state.last_alert_about_rotation)
    /\ now - state.last_alert_about_rotation[1]
           < SECONDS_BETWEEN_ROTATION_REFRESH_EMAILS

RotationIssue(rotation) ==
    IF rotation # None
    THEN <<"the last rotation starts at", rotation[1].final_rotation_start>>
    ELSE <<"no rotation is currently scheduled">>

(* Mutant: the alert time is recorded whether or not the send succeeded *)
AfterAlert_AlwaysRecord(state, new_state, email_ok) == new_state

(* `if not email_ok: return state`, else new_state *)
AfterAlert(state, new_state, email_ok) ==
    IF ~email_ok THEN state ELSE new_state

maybe_email_about_rotation_end(invocation, state, rotation, email_ok) ==
    IF TooEarly(rotation, invocation.now_timestamp)
    THEN [state |-> state, alerts |-> <<>>]
    ELSE IF AlertedRecently(state, invocation.now_timestamp)
    THEN [state |-> state, alerts |-> <<>>]
    ELSE LET new_state == [state EXCEPT !.last_alert_about_rotation =
                                            Some(invocation.now_timestamp)]
         IN  IF invocation.email_info = None
             THEN [state |-> new_state, alerts |-> <<>>]
             ELSE [state |-> AfterAlert(state, new_state, email_ok),
                   alerts |-> <<try_email_llvm_security_team(
                                  invocation.email_info[1].recipient,
                                  <<"Rotation schedule running short",
                                    invocation.repo_name>>,
                                  [issue |-> RotationIssue(rotation)],
                                  email_ok)>>]

----------------------------------------------------------------------------
(* SpecGate: maybe_email_about_rotation_end applied to any input, then once
   more, at the same or a later time, to the state it returned *)

HalfDay == SECONDS_BETWEEN_ROTATION_REFRESH_EMAILS \div 2
Nows == {k * HalfDay : k \in 0..MaxHalfDays}

(* Starts of the last rotation around the nag threshold as seen from now,
   and one already past *)
FinalStarts(now) ==
    {now + SECONDS_BEFORE_ROTATION_LIST_END_TO_NAG + d : d \in {-1, 0, 1}} \cup {0}

GateInit ==
    /\ clock \in Nows
    /\ github_advisories = {}
    /\ rotation_state \in
         {None} \cup {Some(RotationState(PeopleSet, {People[1]}, f)) :
                         f \in FinalStarts(clock)}
    /\ dry_run \in BOOLEAN
    /\ script_state \in
         {ScriptState(s, a) :
            s \in {<<>>, <<1>>},
            a \in {None} \cup {Some(t) : t \in {u \in Nows : u <= clock}}}
    /\ new_script_state = script_state
    /\ emails = <<>>
    /\ prev_emails = <<>>
    /\ alerts = <<>>
    /\ prev_alerts = <<>>
    /\ state_file = None
    /\ tmp_file = None
    /\ write_to_file = None
    /\ skipped_on_call = {}
    /\ delivered = NoDelivery
    /\ failed_before = {}
    /\ prev_clock = clock
    /\ ExtendUnused
    /\ pc = "gate_call"

MaybeEmail ==
    /\ pc = "gate_call"
    /\ \E email_ok \in BOOLEAN :
         LET r == maybe_email_about_rotation_end(
                      ScriptInvocation(clock, EmailInfo(dry_run)),
                      script_state, rotation_state, email_ok)
         IN  /\ new_script_state' = r.state
             /\ alerts' = r.alerts
    /\ pc' = "gate_ret"
    /\ UNCHANGED <<clock, github_advisories, rotation_state, dry_run,
                   script_state, emails, prev_emails, prev_alerts,
                   state_file, tmp_file, write_to_file, skipped_on_call,
                   delivered, failed_before, prev_clock>>
    /\ UNCHANGED extendVars

MaybeEmailAgain ==
    /\ pc = "gate_ret"
    /\ \E now \in {t \in Nows : t >= clock}, email_ok \in BOOLEAN :
         LET r == maybe_email_about_rotation_end(
                      ScriptInvocation(now, EmailInfo(dry_run)),
                      new_script_state, rotation_state, email_ok)
         IN  /\ clock' = now
             /\ new_script_state' = r.state
             /\ alerts' = r.alerts
    /\ script_state' = new_script_state
    /\ prev_alerts' = alerts
    /\ prev_clock' = clock
    /\ pc' = "gate_ret2"
    /\ UNCHANGED <<github_advisories, rotation_state, dry_run, emails,
                   prev_emails, state_file, tmp_file, write_to_file,
                   skipped_on_call, delivered, failed_before>>
    /\ UNCHANGED extendVars

GateNext == MaybeEmail \/ MaybeEmailAgain

SpecGate == GateInit /\ [][GateNext]_vars

----------------------------------------------------------------------------
(* The state file *)

(* to_json: dataclasses.asdict, a document with both keys *)
to_json(state) ==
    [seen_advisories |-> state.seen_advisories,
     last_alert_about_rotation |-> state.last_alert_about_rotation]

(* Mutant: the time of the last alert is not read back *)
from_json_WithoutAlert(json_data) ==
    ScriptState(
        IF "seen_advisories" \in DOMAIN json_data
            THEN json_data.seen_advisories ELSE <<>>,
        None)

(* from_json: json_data.get(key, default) for each key *)
from_json(json_data) ==
    ScriptState(
        IF "seen_advisories" \in DOMAIN json_data
            THEN json_data.seen_advisories ELSE <<>>,
        IF "last_alert_about_rotation" \in DOMAIN json_data
            THEN json_data.last_alert_about_rotation ELSE None)

(* load_from_file: a missing file is the empty state *)
load_from_file(file) ==
    IF file = None THEN ScriptState(<<>>, None) ELSE from_json(file[1])

(* save_to_file: the document written to the temporary file and renamed
   over the target *)
save_to_file(state) == Some(to_json(state))

----------------------------------------------------------------------------
(* main *)

(* Mutant: the new state is never written *)
WriteBack_Never(file, loaded, new_state, dry) == file

(* The end of main: nothing is written when the state did not change; a dry
   run writes the ".dry-run" file, not the state file *)
WriteBack(file, loaded, new_state, dry) ==
    IF new_state = loaded THEN file
    ELSE IF dry THEN file
    ELSE save_to_file(new_state)

(* A path is its stem and its suffix; Path.with_suffix replaces the suffix *)
StateFilePath == <<"state", ".json">>
with_suffix(path, suffix) == <<path[1], suffix>>

(* Mutant: a dry run saves to the state file's own path *)
WriteToFile_StateFile(loaded, new_state, dry) ==
    IF new_state = loaded THEN None ELSE StateFilePath

(* write_to_file: the path the new state is saved to, None when main
   returns before the save *)
WriteToFile(loaded, new_state, dry) ==
    IF new_state = loaded THEN None
    ELSE IF dry THEN with_suffix(StateFilePath, ".dry-run")
    ELSE StateFilePath

(* The ".tmp" file is renamed away by every save *)
TmpAfterSave(file, loaded, new_state) ==
    IF new_state = loaded THEN file ELSE None

----------------------------------------------------------------------------
(* Spec: invocations of main, one after the other, each starting from the
   state file the one before left.  Between invocations time passes,
   advisories are opened, changed and published, and the schedule moves
   on; an invocation reads all of these once. *)

Day == SECONDS_BETWEEN_ROTATION_REFRESH_EMAILS
TrackedIds == 1..MaxTracked

(* The last rotation either started long ago or starts beyond the nag
   threshold of every time of the run *)
Schedules ==
    {None} \cup
    {Some(RotationState(PeopleSet, c, f)) :
        c \in OnCallSets,
        f \in {0, (MaxDays + 1) * Day + SECONDS_BEFORE_ROTATION_LIST_END_TO_NAG}}

(* Successful sends of one run for one advisory *)
Delivered(log, id) ==
    Cardinality({i \in 1..Len(log) : log[i].body.advisory = id /\ log[i].ok})

Init ==
    /\ clock = Day
    /\ github_advisories = {}
    /\ rotation_state \in Schedules
    /\ dry_run = FALSE
    /\ state_file \in
         {None} \cup {save_to_file(ScriptState(SortedBy(S, [i \in S |-> i]), None)) :
                         S \in SUBSET TrackedIds}
    /\ tmp_file = None
    /\ write_to_file = None
    /\ skipped_on_call = {}
    /\ script_state = load_from_file(state_file)
    /\ new_script_state = script_state
    /\ emails = <<>>
    /\ prev_emails = <<>>
    /\ alerts = <<>>
    /\ prev_alerts = <<>>
    /\ delivered = [id \in TrackedIds |-> 0]
    /\ failed_before = {}
    /\ prev_clock = clock
    /\ ExtendUnused
    /\ pc = "idle"

(* time.time() moves on *)
Tick ==
    /\ pc = "idle"
    /\ clock < MaxDays * Day
    /\ clock' = clock + Day
    /\ UNCHANGED <<github_advisories, rotation_state, dry_run, script_state,
                   new_script_state, emails, prev_emails, alerts, prev_alerts,
                   state_file, tmp_file, write_to_file, skipped_on_call,
                   delivered, failed_before, prev_clock, pc>>
    /\ UNCHANGED extendVars

(* An advisory is opened, or its collaborators change *)
AdvisoryChange ==
    /\ pc = "idle"
    /\ \E id \in TrackedIds, c \in SUBSET PeopleSet :
         github_advisories' =
             {a \in github_advisories : a.id # id} \cup {SecurityAdvisory(id, c)}
    /\ UNCHANGED <<clock, rotation_state, dry_run, script_state,
                   new_script_state, emails, prev_emails, alerts, prev_alerts,
                   state_file, tmp_file, write_to_file, skipped_on_call,
                   delivered, failed_before, prev_clock, pc>>
    /\ UNCHANGED extendVars

(* An advisory is published: it is no longer listed as draft or triage *)
AdvisoryPublished ==
    /\ pc = "idle"
    /\ \E a \in github_advisories :
         /\ github_advisories' = github_advisories \ {a}
         /\ delivered' = [delivered EXCEPT ![a.id] = 0]
         /\ skipped_on_call' = skipped_on_call \ {a.id}
    /\ UNCHANGED <<clock, rotation_state, dry_run, script_state,
                   new_script_state, emails, prev_emails, alerts, prev_alerts,
                   state_file, tmp_file, write_to_file, failed_before,
                   prev_clock, pc>>
    /\ UNCHANGED extendVars

(* The rotation files change: another shift is current, or none *)
ScheduleChange ==
    /\ pc = "idle"
    /\ rotation_state' \in Schedules
    /\ UNCHANGED <<clock, github_advisories, dry_run, script_state,
                   new_script_state, emails, prev_emails, alerts, prev_alerts,
                   state_file, tmp_file, write_to_file, skipped_on_call,
                   delivered, failed_before, prev_clock, pc>>
    /\ UNCHANGED extendVars

(* main, from parse_args to the save: the state file is loaded, run_script
   and maybe_email_about_rotation_end run when there is a rotation state,
   and the result is written back.  dry is --dry-run; send_ok[id] is what
   the mail transport does with the send for id, gate_ok with the alert. *)
Invocation(dry, send_ok) ==
    /\ pc = "idle"
    /\ \A id \in TrackedIds : delivered[id] <= 1
    /\ rotation_state # None => FetchReturns
    /\ pc' = "done"
    /\ UNCHANGED <<clock, github_advisories, rotation_state, prev_emails,
                   prev_alerts, failed_before, prev_clock>>
    /\ UNCHANGED extendVars
    /\ dry_run' = dry
    /\ \E invocation \in {ScriptInvocation(clock, EmailInfo(dry))},
          loaded \in {load_from_file(state_file)} :
         /\ script_state' = loaded
         /\ \E ran \in {IF rotation_state # None
                         THEN run_script(invocation, loaded, rotation_state[1],
                                         github_advisories, send_ok)
                         ELSE [state |-> loaded, emails |-> <<>>]} :
             /\ emails' = ran.emails
             /\ delivered' =
                  [id \in TrackedIds |-> delivered[id] + Delivered(ran.emails, id)]
             /\ \E gate_ok \in BOOLEAN :
                \E gated \in {IF rotation_state # None
                              THEN maybe_email_about_rotation_end(
                                       invocation, ran.state, rotation_state,
                                       gate_ok)
                              ELSE [state |-> ran.state, alerts |-> <<>>]} :
                   /\ new_script_state' = gated.state
                   /\ alerts' = gated.alerts
                   /\ state_file' = WriteBack(state_file, loaded, gated.state, dry)
                   /\ write_to_file' = WriteToFile(loaded, gated.state, dry)
                   /\ tmp_file' = TmpAfterSave(tmp_file, loaded, gated.state)
         /\ skipped_on_call' =
              IF dry \/ rotation_state = None THEN skipped_on_call
              ELSE skipped_on_call \cup
                   {a.id : a \in {b \in github_advisories :
                                    /\ b.id \notin SeqToSet(loaded.seen_advisories)
                                    /\ has_rotation_member(b, rotation_state[1])}}

(* main when list_unpublished_security_advisories raises: every GET of a
   request failed, the exception leaves run_script and main before any
   send and before the save *)
FetchFailure(dry) ==
    /\ pc = "idle"
    /\ rotation_state # None
    /\ FetchRaises
    /\ pc' = "aborted"
    /\ dry_run' = dry
    /\ script_state' = load_from_file(state_file)
    /\ new_script_state' = load_from_file(state_file)
    /\ emails' = <<>>
    /\ alerts' = <<>>
    /\ write_to_file' = None
    /\ UNCHANGED <<clock, github_advisories, rotation_state, prev_emails,
                   prev_alerts, state_file, tmp_file,
                   skipped_on_call, delivered, failed_before, prev_clock>>
    /\ UNCHANGED extendVars

Main ==
    \E dry \in BOOLEAN :
        \/ \E send_ok \in [TrackedIds -> BOOLEAN] : Invocation(dry, send_ok)
        \/ FetchFailure(dry)

(* The process exits: what it held in memory is gone *)
Exit ==
    /\ pc \in {"done", "aborted"}
    /\ failed_before' = FailedAlerts(emails)
    /\ emails' = <<>>
    /\ alerts' = <<>>
    /\ script_state' = load_from_file(state_file)
    /\ new_script_state' = load_from_file(state_file)
    /\ dry_run' = FALSE
    /\ write_to_file' = None
    /\ pc' = "idle"
    /\ UNCHANGED <<clock, github_advisories, rotation_state, prev_emails,
                   prev_alerts, state_file, tmp_file,
                   skipped_on_call, delivered, prev_clock>>
    /\ UNCHANGED extendVars

Next ==
    \/ Tick
    \/ AdvisoryChange
    \/ AdvisoryPublished
    \/ ScheduleChange
    \/ Main
    \/ Exit

Spec == Init /\ [][Next]_vars

(* What an invocation finds: the advisory is listed, there is a rotation
   state (run_script runs only then) and none of the advisory's
   collaborators is among its current members, and the state file does not
   list the advisory as seen *)
IsOpen(id) == \E a \in github_advisories : a.id = id
NobodyOnCall(id) ==
    /\ rotation_state # None
    /\ \A a \in github_advisories :
         a.id = id => a.collaborators \cap rotation_state[1].current_members = {}
Persisted == load_from_file(state_file)
Pending(id) ==
    /\ IsOpen(id)
    /\ NobodyOnCall(id)
    /\ id \notin SeqToSet(Persisted.seen_advisories)

(* A run of main in which the notification for a pending advisory is sent
   successfully *)
DeliveringRun(id) ==
    /\ Pending(id)
    /\ \E send_ok \in {f \in [TrackedIds -> BOOLEAN] : f[id]} :
         Invocation(FALSE, send_ok)
    /\ Delivered(emails', id) >= 1

(* The job keeps being run, and a send that is tried again and again
   succeeds in the end *)
FairSpec ==
    /\ Spec
    /\ WF_vars(Exit)
    /\ \A id \in TrackedIds : SF_vars(DeliveringRun(id))

----------------------------------------------------------------------------
(* What the claims speak of *)

OpenIds == {a.id : a \in github_advisories}
SentFor(log) == {log[i].body.advisory : i \in 1..Len(log)}
FailedFor(log) == {log[i].body.advisory : i \in {j \in 1..Len(log) : ~log[j].ok}}
SendCount(log, id) == Cardinality({i \in 1..Len(log) : log[i].body.advisory = id})
SeenIn(state) == SeqToSet(state.seen_advisories)
OnCall == rotation_state[1].current_members
Returned == pc \in {"ret", "ret2"}
Eligible(a) == a.id \notin SeenIn(script_state) /\ a.collaborators \cap OnCall = {}

(* C1: run_script returns a state whose seen_advisories is exactly the ids
   of the open advisories minus those whose send failed in this run (old
   ids no longer open are dropped, skipped advisories are included), and it
   leaves last_alert_about_rotation as it was. *)
C1_SeenIsOpenMinusFailed ==
    Returned =>
        /\ SeenIn(new_script_state) = OpenIds \ FailedFor(emails)
        /\ Len(new_script_state.seen_advisories)
               = Cardinality(OpenIds \ FailedFor(emails))
        /\ new_script_state.last_alert_about_rotation
               = script_state.last_alert_about_rotation

C1_Witness ==
    /\ pc = "ret"
    /\ FailedFor(emails) # {}
    /\ SeenIn(script_state) \ OpenIds # {}
    /\ SeenIn(new_script_state) = {}

(* C2: in a non-dry-run run_script a send is attempted for an open advisory
   iff its id is not in the input seen_advisories and none of its
   collaborators is on call; exactly one send for each such advisory,
   whatever the outcome of the sends for the others. *)
C2_SendIffUnseenAndNobodyOnCall ==
    (Returned /\ ~dry_run) =>
        /\ \A a \in github_advisories :
               SendCount(emails, a.id) = IF Eligible(a) THEN 1 ELSE 0
        /\ SentFor(emails) \subseteq OpenIds

C2_Witness ==
    /\ pc = "ret"
    /\ ~dry_run
    /\ Len(emails) = 2
    /\ ~emails[1].ok
    /\ emails[2].ok

(* C3 as stated: the second of two successive runs on the same advisories
   and on-call set sends nothing. *)
C3_SecondRunSendsNothing == pc = "ret2" => emails = <<>>

(* C3 amended: the second of two successive runs on the same advisories and
   on-call set sends exactly one notification for each advisory whose send
   failed in the first run and none for any other; nothing when no send of
   the first run failed. *)
C3_SecondRunResendsFailedOnly ==
    pc = "ret2" =>
        /\ SentFor(emails) = FailedFor(prev_emails)
        /\ \A id \in FailedFor(prev_emails) : SendCount(emails, id) = 1

C3_Witness ==
    /\ pc = "ret2"
    /\ ~dry_run
    /\ Len(prev_emails) = 2
    /\ FailedFor(prev_emails) = {}
    /\ emails = <<>>

(* C7 as stated: every advisory notification is addressed to the members of
   the current on-call shift, all of them and nobody else. *)
C7_AddressedToOnCall ==
    Returned => \A i \in 1..Len(emails) : {emails[i].to} = OnCall

(* C7 amended: every advisory notification is addressed to the configured
   recipient, names the advisory (its title in the subject, its id in the
   body) and lists in its body the members of the current on-call shift, all
   of them and nobody else; with one open unseen advisory without
   collaborators and on-call {dave}, exactly one notification listing dave is
   produced and after a successful send the new seen list is that id alone. *)
C7_NamesAdvisoryListsOnCall ==
    Returned =>
        /\ \A i \in 1..Len(emails) :
             /\ emails[i].to \in Recipients
             /\ SeqToSet(emails[i].body.oncall) = OnCall
             /\ Len(emails[i].body.oncall) = Cardinality(OnCall)
             /\ \E a \in github_advisories :
                    /\ a.id = emails[i].body.advisory
                    /\ a.title = emails[i].subject[3]
        /\ \A id \in GhsaIds :
             ( /\ pc = "ret"
               /\ ~dry_run
               /\ github_advisories = {SecurityAdvisory(id, {})}
               /\ OnCall = {"dave"}
               /\ script_state.seen_advisories = <<>> )
             => /\ Len(emails) = 1
                /\ emails[1].body.oncall = <<"dave">>
                /\ emails[1].body.advisory = id
                /\ emails[1].ok => new_script_state.seen_advisories = <<id>>
                /\ ~emails[1].ok => new_script_state.seen_advisories = <<>>

C7_Witness ==
    /\ pc = "ret"
    /\ ~dry_run
    /\ github_advisories = {SecurityAdvisory(1, {})}
    /\ OnCall = {"dave"}
    /\ script_state.seen_advisories = <<>>
    /\ Len(emails) = 1
    /\ emails[1].ok
    /\ new_script_state.seen_advisories = <<1>>

----------------------------------------------------------------------------
(* The gate's claims *)

GateReturned == pc \in {"gate_ret", "gate_ret2"}
Remaining == rotation_state[1].final_rotation_start - clock
LastAlert == script_state.last_alert_about_rotation
WithinThreshold ==
    rotation_state = None \/ Remaining <= SECONDS_BEFORE_ROTATION_LIST_END_TO_NAG
InCooldown ==
    /\ LastAlert # None
    /\ clock - LastAlert[1] < SECONDS_BETWEEN_ROTATION_REFRESH_EMAILS

(* C8: maybe_email_about_rotation_end sends no alert and returns its input
   state unchanged whenever final_rotation_start - now is strictly greater
   than the nag threshold; at exactly the threshold the call is
   alert-eligible (with no cooldown in force, a non-dry run sends). *)
C8_NoAlertBeyondThreshold ==
    GateReturned =>
        /\ ( /\ rotation_state # None
             /\ Remaining > SECONDS_BEFORE_ROTATION_LIST_END_TO_NAG )
           => alerts = <<>> /\ new_script_state = script_state
        /\ ( /\ rotation_state # None
             /\ Remaining = SECONDS_BEFORE_ROTATION_LIST_END_TO_NAG
             /\ ~InCooldown
             /\ ~dry_run )
           => Len(alerts) = 1

C8_Witness ==
    /\ pc = "gate_ret"
    /\ rotation_state # None
    /\ Remaining = SECONDS_BEFORE_ROTATION_LIST_END_TO_NAG + 1
    /\ LastAlert = None
    /\ ~dry_run
    /\ alerts = <<>>

(* C9: whenever the state records a last gate alert, whatever the recorded
   timestamp, and now minus it is strictly less than the cooldown,
   maybe_email_about_rotation_end sends no alert and returns its input
   state unchanged. *)
C9_CooldownSuppresses ==
    (GateReturned /\ InCooldown) =>
        alerts = <<>> /\ new_script_state = script_state

(* C10: within the nag threshold and with no cooldown in force, a
   non-dry-run maybe_email_about_rotation_end attempts exactly one alert
   send; it returns the state with last_alert_about_rotation = now if the
   send succeeded and the input state unchanged if it failed, so that the
   very next call attempts the alert again, however soon it comes;
   seen_advisories is unchanged in both cases. *)
C10_OneAlertRecordedOnSuccess ==
    /\ (GateReturned /\ ~dry_run /\ WithinThreshold /\ ~InCooldown) =>
        /\ Len(alerts) = 1
        /\ alerts[1].ok =>
             new_script_state = [script_state EXCEPT
                                   !.last_alert_about_rotation = Some(clock)]
        /\ ~alerts[1].ok => new_script_state = script_state
        /\ new_script_state.seen_advisories = script_state.seen_advisories
    /\ ( /\ pc = "gate_ret2"
         /\ ~dry_run
         /\ Len(prev_alerts) = 1
         /\ ~prev_alerts[1].ok
         /\ WithinThreshold )
       => Len(alerts) = 1

C10_Witness ==
    /\ pc = "gate_ret2"
    /\ ~dry_run
    /\ Len(prev_alerts) = 1
    /\ ~prev_alerts[1].ok
    /\ LastAlert # None
    /\ Len(alerts) = 1
    /\ alerts[1].ok
    /\ new_script_state.last_alert_about_rotation = Some(clock)

----------------------------------------------------------------------------
(* Claims on chained invocations *)


(* C4: when the send for an advisory fails, its id is absent from the
   returned seen_advisories (and from the state file), while the run
   completes and returns the other open advisories as seen; the next
   invocation attempts the send again if the advisory is still open and
   still has no collaborator on call. *)
C4_FailedSendIsRetried ==
    /\ pc = "done" =>
         /\ \A id \in FailedFor(emails) :
              /\ id \notin SeenIn(new_script_state)
              /\ id \notin SeenIn(Persisted)
         /\ rotation_state # None =>
              SeenIn(new_script_state) = OpenIds \ FailedFor(emails)
    /\ (pc = "done" /\ ~dry_run) =>
         \A id \in failed_before :
             (IsOpen(id) /\ NobodyOnCall(id)) => SendCount(emails, id) = 1

C4_Witness ==
    /\ pc = "done"
    /\ ~dry_run
    /\ \E id \in failed_before :
         /\ SendCount(emails, id) = 1
         /\ id \notin FailedFor(emails)
         /\ id \in SeenIn(Persisted)

(* C5: over invocations chained through the state file, an advisory that
   stays open gets at most one successfully sent notification, whatever
   sends fail and however the on-call set changes in between. *)
C5_AtMostOneDelivery == \A id \in TrackedIds : delivered[id] <= 1

C5_Witness ==
    /\ pc = "done"
    /\ ~dry_run
    /\ \E id \in TrackedIds :
         /\ delivered[id] = 1
         /\ IsOpen(id)
         /\ NobodyOnCall(id)
         /\ emails = <<>>
         /\ clock > Day

(* C6: an advisory that is open, not in the persisted seen list and keeps
   being open with nobody of its collaborators on call is notified
   successfully in the end, given that the job keeps running and that a
   send for it succeeds in the end; and no failed send puts an id into the
   persisted seen list. *)
C6_EventuallyNotified ==
    /\ [](pc = "done" => \A id \in FailedFor(emails) : id \notin SeenIn(Persisted))
    /\ \A id \in TrackedIds :
         (IsOpen(id) /\ NobodyOnCall(id) /\ id \notin SeenIn(Persisted))
             ~> (~(IsOpen(id) /\ NobodyOnCall(id)) \/ delivered[id] >= 1)

C6_Witness ==
    /\ pc = "done"
    /\ ~dry_run
    /\ \E id \in failed_before :
         /\ IsOpen(id)
         /\ NobodyOnCall(id)
         /\ delivered[id] = 1
         /\ SendCount(emails, id) = 1

----------------------------------------------------------------------------
(* Further claims on the gate *)

BothAlertsSent ==
    /\ pc = "gate_ret2"
    /\ Len(prev_alerts) = 1
    /\ prev_alerts[1].ok
    /\ Len(alerts) = 1
    /\ alerts[1].ok

(* C11: over calls of maybe_email_about_rotation_end with non-decreasing
   now, the first possibly at time 0, each given the state the call before
   returned, any two successfully sent alerts are at least
   SECONDS_BETWEEN_ROTATION_REFRESH_EMAILS apart. *)
C11_SentAlertsCooldownApart ==
    BothAlertsSent =>
        clock - prev_clock >= SECONDS_BETWEEN_ROTATION_REFRESH_EMAILS

(* A schedule whose last rotation started at or before now *)
ExhaustedSchedules ==
    {Some(RotationState(PeopleSet, {People[1]}, f)) : f \in {0, clock}}

(* C12: with rotation_state absent, maybe_email_about_rotation_end does
   what it does for a schedule that is already exhausted: the nag-threshold
   test is skipped, and an alert is sent unless the cooldown suppresses it;
   the state returned and the number of alerts are those of the exhausted
   schedule. *)
C12_AbsentScheduleIsExhausted ==
    (GateReturned /\ rotation_state = None) =>
        /\ (~dry_run /\ ~InCooldown) => Len(alerts) = 1
        /\ \A exhausted \in ExhaustedSchedules, email_ok \in BOOLEAN :
             (alerts = <<>> \/ alerts[1].ok = email_ok) =>
                 LET r == maybe_email_about_rotation_end(
                              ScriptInvocation(clock, EmailInfo(dry_run)),
                              script_state, exhausted, email_ok)
                 IN  /\ r.state = new_script_state
                     /\ Len(r.alerts) = Len(alerts)

C12_Witness ==
    /\ pc = "gate_ret"
    /\ rotation_state = None
    /\ ~dry_run
    /\ LastAlert = None
    /\ Len(alerts) = 1
    /\ alerts[1].ok
    /\ new_script_state.last_alert_about_rotation = Some(clock)

----------------------------------------------------------------------------
(* extend_rotation.py.  A datetime is a number of seconds since a Monday,
   00:00 UTC; the dictionary of service times is a sequence of
   <<name, time>> pairs in insertion order, as a Python dict keeps them. *)

SecondsPerDay == 24 * 60 * 60
Weeks(n) == n * 7 * SecondsPerDay

(* datetime.min: before every time of the model *)
MIN_TIME_UTC == 0 - Weeks(1000)

Rotation(start_time, rotation_members) ==
    [start_time |-> start_time, members |-> rotation_members]

(* d[key] = value on an insertion-ordered dict *)
DictSet(d, key, value) ==
    IF \E i \in 1..Len(d) : d[i][1] = key
    THEN [i \in 1..Len(d) |-> IF d[i][1] = key THEN <<key, value>> ELSE d[i]]
    ELSE Append(d, <<key, value>>)

(* {x: MIN_TIME_UTC for x in members}, from index i on *)
RECURSIVE NewPeople(_, _, _)
NewPeople(d, names, i) ==
    IF i > Len(names) THEN d
    ELSE NewPeople(DictSet(d, names[i], MIN_TIME_UTC), names, i + 1)

(* The inner loop: last_service_times[member] = service_time *)
RECURSIVE RecordService(_, _, _)
RecordService(d, rotation, j) ==
    IF j > Len(rotation.members) THEN d
    ELSE RecordService(DictSet(d, rotation.members[j], rotation.start_time),
                       rotation, j + 1)

(* The outer loop over rotations, oldest first, from index i on *)
RECURSIVE RecordRotations(_, _, _)
RecordRotations(d, rotations, i) ==
    IF i > Len(rotations) THEN d
    ELSE RecordRotations(RecordService(d, rotations[i], 1), rotations, i + 1)

find_most_recent_service_times(rotations, names) ==
    RecordRotations(NewPeople(<<>>, names, 1), rotations, 1)

(* Mutant: an item goes in front of the items with its own key *)
InsertByTime_BeforeTies(sorted, item) ==
    LET before == SelectSeq(sorted, LAMBDA x : x[2] < item[2])
        after == SelectSeq(sorted, LAMBDA x : x[2] >= item[2])
    IN  before \o <<item>> \o after

(* sorted(items, key=lambda item: item[1]): a stable sort, so an item goes
   behind every item whose key is not greater than its own *)
InsertByTime(sorted, item) ==
    LET before == SelectSeq(sorted, LAMBDA x : x[2] <= item[2])
        after == SelectSeq(sorted, LAMBDA x : x[2] > item[2])
    IN  before \o <<item>> \o after

RECURSIVE SortedByTime(_, _)
SortedByTime(items, n) ==
    IF n = 0 THEN <<>>
    ELSE InsertByTime(SortedByTime(items, n - 1), items[n])

(* Mutant: the first new rotation starts with the last prior one *)
FirstStart_AtLastStart(prior, weeks, now) ==
    IF prior # <<>>
    THEN prior[Len(prior)].start_time
    ELSE LET midnight == now - (now % SecondsPerDay)
             weekday == (midnight \div SecondsPerDay) % 7
         IN  midnight - (weekday + 1) * SecondsPerDay

(* The start of the first new rotation: one rotation length after the last
   prior one, or else midnight before now, moved back by weekday() + 1 days
   (weekday() is 0 on a Monday) *)
FirstStart(prior, weeks, now) ==
    IF prior # <<>>
    THEN prior[Len(prior)].start_time + Weeks(weeks)
    ELSE LET midnight == now - (now % SecondsPerDay)
             weekday == (midnight \div SecondsPerDay) % 7
         IN  midnight - (weekday + 1) * SecondsPerDay

(* The people popped off the left of the deque for one rotation *)
PopLeft(deque, n) == SubSeq(deque, 1, n)

(* Mutant: the people who served go back to the front *)
Extend_AtFront(deque, people) ==
    people \o SubSeq(deque, Len(people) + 1, Len(deque))

(* least_recent_assignees.extend(people_on_this_rotation), after the pops *)
Extend(deque, people) ==
    SubSeq(deque, Len(people) + 1, Len(deque)) \o people

(* Mutant: the quotient is rounded down *)
CeilDiv_Floor(a, b) == a \div b

(* math.ceil(a / b) for b > 0 *)
CeilDiv(a, b) == (a + b - 1) \div b

calculate_rotations_to_cover_EmptyNeedsNone(target, weeks, current_rotations) ==
    IF current_rotations = <<>> THEN Returns(0)
    ELSE LET last_rotation == current_rotations[Len(current_rotations)]
             end_of_last_rotation == last_rotation.start_time + Weeks(weeks)
             delta == target - end_of_last_rotation
             days_needed == CeilDiv(delta, SecondsPerDay)
         IN  IF end_of_last_rotation >= target THEN Returns(0)
             ELSE IF weeks = 0 THEN Raises("ZeroDivisionError")
             ELSE Returns(CeilDiv(days_needed, 7 * weeks))

(* Mutant: whole weeks first, then one rotation more than the quotient *)
calculate_rotations_to_cover_OneMore(target, weeks, current_rotations) ==
    IF current_rotations = <<>> THEN Raises("ValueError")
    ELSE LET last_rotation == current_rotations[Len(current_rotations)]
             end_of_last_rotation == last_rotation.start_time + Weeks(weeks)
             delta == target - end_of_last_rotation
             days_needed == CeilDiv(delta, SecondsPerDay)
         IN  IF end_of_last_rotation >= target THEN Returns(0)
             ELSE IF weeks = 0 THEN Raises("ZeroDivisionError")
             ELSE Returns(CeilDiv(days_needed, 7) \div weeks + 1)

calculate_rotations_to_cover(target, weeks, current_rotations) ==
    IF current_rotations = <<>> THEN Raises("ValueError")
    ELSE LET last_rotation == current_rotations[Len(current_rotations)]
             end_of_last_rotation == last_rotation.start_time + Weeks(weeks)
             delta == target - end_of_last_rotation
             days_needed == CeilDiv(delta, SecondsPerDay)
         IN  IF end_of_last_rotation >= target THEN Returns(0)
             ELSE IF weeks = 0 THEN Raises("ZeroDivisionError")
             ELSE Returns(CeilDiv(days_needed, 7 * weeks))

----------------------------------------------------------------------------
(* SpecExtend: generate_additional_rotations started on any rotation file
   and members list and asked for one rotation after the other, and
   calculate_rotations_to_cover applied to the same rotation file *)

Engineers == <<"alice", "bob", "charlie">>
EngineerSet == {Engineers[i] : i \in 1..Len(Engineers)}

(* Lists of distinct people, up to n long *)
Lists(n) ==
    {s \in UNION {[1..k -> EngineerSet] : k \in 0..n} :
        \A i, j \in 1..Len(s) : i # j => s[i] # s[j]}

(* Rotation files: no rotation, one, or two with increasing start times,
   each rotation with one or two people *)
PriorStarts == {Weeks(1), Weeks(3)}
RotationFiles ==
    {<<>>}
    \cup {<<Rotation(t, m)>> : t \in PriorStarts, m \in Lists(2) \ {<<>>}}
    \cup {<<Rotation(Weeks(1), m1), Rotation(Weeks(3), m2)>> :
             m1 \in Lists(2) \ {<<>>}, m2 \in Lists(2) \ {<<>>}}

(* datetime.now(): every day of one week, at midnight and in the afternoon *)
ExtendNows ==
    {Weeks(5) + d * SecondsPerDay + s : d \in 0..6, s \in {0, 15 * 60 * 60}}

(* Times to cover: whole weeks, one second more, and three days more *)
Whens ==
    {Weeks(w) + s : w \in {0, 4, 5, 6}, s \in {0, 1, 3 * SecondsPerDay}}

ExtendInit ==
    /\ prior_rotations \in RotationFiles
    /\ members \in Lists(3)
    /\ rotation_length_weeks \in 0..2
    /\ people_per_rotation \in 1..3
    /\ clock \in IF prior_rotations = <<>> THEN ExtendNows ELSE {Weeks(5)}
    /\ when = 0
    /\ least_recent_assignees = <<>>
    /\ next_rotation_start_time = 0
    /\ generated = <<>>
    /\ rotations_needed = <<>>
    /\ github_advisories = {}
    /\ rotation_state = None
    /\ dry_run = FALSE
    /\ script_state = ScriptState(<<>>, None)
    /\ new_script_state = script_state
    /\ emails = <<>>
    /\ prev_emails = <<>>
    /\ alerts = <<>>
    /\ prev_alerts = <<>>
    /\ state_file = None
    /\ tmp_file = None
    /\ write_to_file = None
    /\ skipped_on_call = {}
    /\ delivered = NoDelivery
    /\ failed_before = {}
    /\ prev_clock = clock
    /\ pc = "extend_call"

(* The generator runs up to its loop: lines 50-67 *)
StartGenerator ==
    /\ pc = "extend_call"
    /\ least_recent_assignees' =
         LET last_service_times ==
                 find_most_recent_service_times(prior_rotations, members)
             sorted == SortedByTime(last_service_times, Len(last_service_times))
         IN  [i \in 1..Len(sorted) |-> sorted[i][1]]
    /\ next_rotation_start_time' =
         FirstStart(prior_rotations, rotation_length_weeks, clock)
    /\ pc' = "generating"
    /\ UNCHANGED <<prior_rotations, members, rotation_length_weeks,
                   people_per_rotation, when, generated, rotations_needed,
                   clock>>
    /\ UNCHANGED emailVars

(* One turn of the loop: popleft raises IndexError on an empty deque,
   before the yield; otherwise the rotation is yielded and the people who
   serve go to the back of the deque *)
YieldRotation ==
    /\ pc = "generating"
    /\ Len(generated) < MaxRotations
    /\ IF Len(least_recent_assignees) < people_per_rotation
       THEN /\ pc' = "raised"
            /\ least_recent_assignees' = <<>>
            /\ UNCHANGED <<generated, next_rotation_start_time>>
       ELSE LET people_on_this_rotation ==
                    PopLeft(least_recent_assignees, people_per_rotation)
            IN  /\ generated' =
                     Append(generated, Rotation(next_rotation_start_time,
                                                people_on_this_rotation))
                /\ next_rotation_start_time' =
                     next_rotation_start_time + Weeks(rotation_length_weeks)
                /\ least_recent_assignees' =
                     Extend(least_recent_assignees, people_on_this_rotation)
                /\ pc' = "generating"
    /\ UNCHANGED <<prior_rotations, members, rotation_length_weeks,
                   people_per_rotation, when, rotations_needed, clock>>
    /\ UNCHANGED emailVars

CalculateRotations ==
    /\ pc = "extend_call"
    /\ \E target \in Whens :
         /\ when' = target
         /\ rotations_needed' =
              calculate_rotations_to_cover(target, rotation_length_weeks,
                                           prior_rotations)
    /\ pc' = "counted"
    /\ UNCHANGED <<prior_rotations, members, rotation_length_weeks,
                   people_per_rotation, least_recent_assignees,
                   next_rotation_start_time, generated, clock>>
    /\ UNCHANGED emailVars

ExtendNext == StartGenerator \/ YieldRotation \/ CalculateRotations

SpecExtend == ExtendInit /\ [][ExtendNext]_vars

----------------------------------------------------------------------------
(* Claims on generate_additional_rotations and calculate_rotations_to_cover *)

Pool == SeqToSet(members)
ShiftsOf(person) ==
    {k \in 1..Len(generated) : person \in SeqToSet(generated[k].members)}
Assigned == UNION {SeqToSet(generated[k].members) : k \in 1..Len(generated)}

(* C13: when the size of the members list is a multiple of
   people_per_rotation, then after any number of generated rotations,
   whatever the prior rotations, nobody of the members list is in two
   generated rotations unless everybody of the list is in at least one. *)
C13_NoSecondTurnBeforeAllServed ==
    (Len(members) % people_per_rotation = 0) =>
        \A person \in Pool :
            Cardinality(ShiftsOf(person)) >= 2 =>
                \A other \in Pool : ShiftsOf(other) # {}

C13_Witness ==
    /\ pc = "generating"
    /\ prior_rotations # <<>>
    /\ Len(members) = 2
    /\ people_per_rotation = 1
    /\ \E person \in Pool : Cardinality(ShiftsOf(person)) = 2

PriorPeople ==
    UNION {SeqToSet(prior_rotations[k].members) : k \in 1..Len(prior_rotations)}

(* Everybody who has a service time *)
Keyed == Pool \cup PriorPeople

(* The start of the latest prior rotation a person is in; MIN_TIME_UTC for
   somebody who never served *)
LastServed(person) ==
    LET served == {prior_rotations[k].start_time :
                      k \in {i \in 1..Len(prior_rotations) :
                                person \in SeqToSet(prior_rotations[i].members)}}
    IN  IF served = {} THEN MIN_TIME_UTC
        ELSE CHOOSE t \in served : \A u \in served : u <= t

PoolPosition(person) == CHOOSE i \in 1..Len(members) : members[i] = person

(* a is due before b: served less recently, or as recently and earlier in
   the members list *)
DueBefore(a, b) ==
    \/ LastServed(a) < LastServed(b)
    \/ /\ LastServed(a) = LastServed(b)
       /\ (a \in Pool /\ b \in Pool) => PoolPosition(a) < PoolPosition(b)

RECURSIVE Flatten(_, _)
Flatten(rotations, k) ==
    IF k = 0 THEN <<>> ELSE Flatten(rotations, k - 1) \o rotations[k].members

(* The people assigned so far, in the order they were taken *)
Taken == Flatten(generated, Len(generated))

(* C15: people are assigned in ascending order of their most recent service
   time (the start of the latest prior rotation they are in; people who
   never served first), ties between people of the members list in the
   order of that list; every rotation takes the next people_per_rotation
   people of that order, and after everybody had a turn the order repeats. *)
C15_LeastRecentFirstCyclic ==
    LET n == Cardinality(Keyed)
    IN  /\ \A k \in 1..Len(generated) :
             Len(generated[k].members) = people_per_rotation
        /\ \A i \in 1..Len(Taken) :
             IF i > n THEN Taken[i] = Taken[i - n]
             ELSE /\ Taken[i] \in Keyed
                  /\ \A j \in 1..(i - 1) : Taken[j] # Taken[i]
                  /\ \A other \in Keyed \ {Taken[j] : j \in 1..i} :
                         DueBefore(Taken[i], other)

C15_Witness ==
    /\ pc = "generating"
    /\ Len(prior_rotations) = 2
    /\ Len(members) = 3
    /\ people_per_rotation = 2
    /\ Len(generated) = 3
    /\ \E a, b \in Pool : a # b /\ LastServed(a) = LastServed(b)
    /\ \E a \in Pool : LastServed(a) = MIN_TIME_UTC

StrictlyIncreasing(rotations) ==
    \A i \in 1..(Len(rotations) - 1) :
        rotations[i].start_time < rotations[i + 1].start_time

(* The first generated rotation starts one rotation length after the last
   prior one, every later one one rotation length after the one before *)
OneLengthApart ==
    \A k \in 1..Len(generated) :
        generated[k].start_time =
            (IF k = 1 THEN prior_rotations[Len(prior_rotations)].start_time
                      ELSE generated[k - 1].start_time)
            + Weeks(rotation_length_weeks)

(* C16 as stated: with a non-empty prior schedule the generated rotations
   are one rotation length apart, starting one length after the last prior
   rotation, and so the extended schedule stays strictly increasing. *)
C16_ExtendedStaysIncreasing ==
    (prior_rotations # <<>>) =>
        /\ OneLengthApart
        /\ StrictlyIncreasing(prior_rotations \o generated)

(* C16, amended: the same, the schedule staying strictly increasing when
   the rotation length is at least one week. *)
C16_IncreasingForPositiveLength ==
    (prior_rotations # <<>>) =>
        /\ OneLengthApart
        /\ rotation_length_weeks >= 1 =>
               StrictlyIncreasing(prior_rotations \o generated)

C16_Witness ==
    /\ pc = "generating"
    /\ Len(prior_rotations) = 2
    /\ rotation_length_weeks = 2
    /\ Len(generated) = 3
    /\ generated[3].start_time =
           prior_rotations[2].start_time + 3 * Weeks(rotation_length_weeks)

(* Sunday is day 6 of a week that starts on a Monday *)
IsSundayMidnight(t) ==
    /\ t % SecondsPerDay = 0
    /\ (t \div SecondsPerDay) % 7 = 6

(* The latest Sunday 00:00 that is not after now *)
MostRecentSunday(now) ==
    CHOOSE t \in {now - (now % SecondsPerDay) - d * SecondsPerDay : d \in 0..6} :
        IsSundayMidnight(t)

(* C17: with no prior rotation, the first generated rotation starts at the
   most recent Sunday 00:00 UTC at or before now, on whatever day of the
   week now falls, and every later one starts one rotation length after the
   one before. *)
C17_FirstStartsLastSunday ==
    (prior_rotations = <<>> /\ generated # <<>>) =>
        /\ generated[1].start_time = MostRecentSunday(clock)
        /\ \A k \in 2..Len(generated) :
               generated[k].start_time =
                   generated[k - 1].start_time + Weeks(rotation_length_weeks)

(* C18: when people_per_rotation exceeds the size of the members list, the
   generator raises before it yields any rotation, whatever the prior
   rotations: no rotation is ever generated. *)
C18_TooFewMembersRaises ==
    (people_per_rotation > Len(members)) => generated = <<>>

(* C19: everybody in a generated rotation is in the members list: somebody
   who is in prior rotations and no longer in the list is not assigned to
   a new rotation. *)
C19_OnlyMembersAssigned == Assigned \subseteq Pool

(* C20: calculate_rotations_to_cover raises its ValueError, and so returns
   no count, whenever the rotation file has no rotation, whatever the time
   to cover and the rotation length. *)
C20_EmptyScheduleRaises ==
    (pc = "counted" /\ prior_rotations = <<>>) =>
        rotations_needed = Raises("ValueError")

C20_Witness ==
    /\ pc = "counted"
    /\ prior_rotations = <<>>
    /\ rotation_length_weeks = 0
    /\ when < clock
    /\ rotations_needed.raised = "ValueError"

LastPrior == prior_rotations[Len(prior_rotations)]
EndOfLastPrior == LastPrior.start_time + Weeks(rotation_length_weeks)
Counted ==
    /\ pc = "counted"
    /\ prior_rotations # <<>>
    /\ rotations_needed.raised = ""

(* C21: for a rotation file that is not empty and every time to cover and
   rotation length, the count n that calculate_rotations_to_cover returns
   does not leave the schedule short, last.start + (n + 1) * length >= when,
   and n = 0 is returned only when the last rotation already ends at or
   after when. *)
C21_CountCoversTarget ==
    Counted =>
        /\ LastPrior.start_time
               + (rotations_needed.value + 1) * Weeks(rotation_length_weeks)
             >= when
        /\ rotations_needed.value = 0 => EndOfLastPrior >= when

C21_Witness ==
    /\ Counted
    /\ EndOfLastPrior < when
    /\ when % SecondsPerDay # 0
    /\ rotations_needed.value >= 2

(* C27: when the last rotation ends before the time to cover,
   calculate_rotations_to_cover returns the least positive n with
   last.start + (n + 1) * length >= when, neither one rotation more nor one
   less, also when the gap is not a whole number of days or of weeks. *)
C27_CountIsLeastCover ==
    (Counted /\ EndOfLastPrior < when) =>
        /\ rotations_needed.value >= 1
        /\ LastPrior.start_time
               + (rotations_needed.value + 1) * Weeks(rotation_length_weeks)
             >= when
        /\ LastPrior.start_time
               + rotations_needed.value * Weeks(rotation_length_weeks)
             < when

C27_Witness ==
    /\ Counted
    /\ rotation_length_weeks = 2
    /\ when - EndOfLastPrior = Weeks(2)
    /\ rotations_needed.value = 1

----------------------------------------------------------------------------
(* SpecSave: the end of main, from the comparison of the new state with the
   loaded one to the rename, one system call after the other; the process
   can die before each of them.  Then the next invocation loads the file. *)

(* json.dump hands the document to the file in pieces *)
Chunks == 2

(* A file that holds only the first pieces of a document *)
Truncated(document, pieces) == [truncated |-> document, pieces |-> pieces]
IsComplete(file) == file = None \/ "truncated" \notin DOMAIN file[1]

SavedStates ==
    {ScriptState(seen, last_alert) :
        seen \in SeenLists,
        last_alert \in {None, Some(0), Some(SECONDS_BETWEEN_ROTATION_REFRESH_EMAILS)}}

(* Documents an older version of the script may have left: any of the two
   keys may be missing *)
OlderDocuments ==
    {[seen_advisories |-> st.seen_advisories] : st \in SavedStates}
    \cup {[last_alert_about_rotation |-> st.last_alert_about_rotation] :
             st \in SavedStates}
    \cup {[key \in {} |-> None]}

StateFiles ==
    {None} \cup {Some(to_json(st)) : st \in SavedStates}
           \cup {Some(document) : document \in OlderDocuments}

SaveInit ==
    /\ state_file \in StateFiles
    /\ tmp_file \in {None, Some(Truncated(to_json(ScriptState(<<>>, None)), 1))}
    /\ script_state = load_from_file(state_file)
    /\ new_script_state \in SavedStates
    /\ dry_run \in BOOLEAN
    /\ write_to_file = None
    /\ clock = 0
    /\ github_advisories = {}
    /\ rotation_state = None
    /\ emails = <<>>
    /\ prev_emails = <<>>
    /\ alerts = <<>>
    /\ prev_alerts = <<>>
    /\ skipped_on_call = {}
    /\ delivered = NoDelivery
    /\ failed_before = {}
    /\ prev_clock = clock
    /\ ExtendUnused
    /\ pc = "save_call"

saveUnchanged ==
    <<clock, github_advisories, rotation_state, dry_run, new_script_state,
      emails, prev_emails, alerts, prev_alerts, skipped_on_call, delivered,
      failed_before, prev_clock>>

(* `if new_script_state == script_state: return`, else the choice of the
   path *)
CompareStates ==
    /\ pc = "save_call"
    /\ write_to_file' = WriteToFile(script_state, new_script_state, dry_run)
    /\ pc' = IF new_script_state = script_state THEN "returned" ELSE "open"
    /\ UNCHANGED <<state_file, tmp_file, script_state>>
    /\ UNCHANGED saveUnchanged
    /\ UNCHANGED extendVars

(* tmp_file.open("w"): the file is created, or emptied *)
OpenTmp ==
    /\ pc = "open"
    /\ tmp_file' = Some(Truncated(to_json(new_script_state), 0))
    /\ pc' = "dump"
    /\ UNCHANGED <<state_file, write_to_file, script_state>>
    /\ UNCHANGED saveUnchanged
    /\ UNCHANGED extendVars

(* json.dump and the close of the `with`: one more piece reaches the file;
   with the last one it holds the whole document *)
DumpPiece ==
    /\ pc = "dump"
    /\ \E pieces \in {tmp_file[1].pieces + 1} :
         IF pieces < Chunks
         THEN /\ tmp_file' = Some(Truncated(to_json(new_script_state), pieces))
              /\ pc' = "dump"
         ELSE /\ tmp_file' = save_to_file(new_script_state)
              /\ pc' = "rename"
    /\ UNCHANGED <<state_file, write_to_file, script_state>>
    /\ UNCHANGED saveUnchanged
    /\ UNCHANGED extendVars

(* Mutant: the document is copied over the target piece by piece *)
RenameTo_Copy(target, source) == Some(Truncated(source[1], 1))

(* rename(2): the target is replaced by the source in one step *)
RenameTo(target, source) == source

(* tmp_file.rename(state_file), state_file being the path main chose *)
Rename ==
    /\ pc = "rename"
    /\ state_file' = IF write_to_file = StateFilePath
                     THEN RenameTo(state_file, tmp_file)
                     ELSE state_file
    /\ tmp_file' = None
    /\ pc' = "saved"
    /\ UNCHANGED <<write_to_file, script_state>>
    /\ UNCHANGED saveUnchanged
    /\ UNCHANGED extendVars

(* The process dies: the files stay as they are *)
Crash ==
    /\ pc \in {"save_call", "open", "dump", "rename"}
    /\ pc' = "crashed"
    /\ UNCHANGED <<state_file, tmp_file, write_to_file, script_state>>
    /\ UNCHANGED saveUnchanged
    /\ UNCHANGED extendVars

(* The next invocation: ScriptState.load_from_file(state_file) *)
LoadAgain ==
    /\ pc \in {"saved", "returned", "crashed"}
    /\ script_state' = load_from_file(state_file)
    /\ pc' = "reloaded"
    /\ UNCHANGED <<state_file, tmp_file, write_to_file>>
    /\ UNCHANGED saveUnchanged
    /\ UNCHANGED extendVars

SaveNext ==
    \/ CompareStates
    \/ OpenTmp
    \/ DumpPiece
    \/ Rename
    \/ Crash
    \/ LoadAgain

SpecSave == SaveInit /\ [][SaveNext]_vars

(* C24: save_to_file writes the whole new state to the temporary file and
   renames it over the state file, so the state file, at every step and
   after a crash at any point, holds the whole previous state or the whole
   new state, never a part of one; it changes at most once in an
   invocation, with the rename at the end. *)
C24_StateFileNeverPartial ==
    /\ [](IsComplete(state_file))
    /\ [][state_file' # state_file =>
            /\ state_file' = save_to_file(new_script_state)
            /\ pc = "rename"
            /\ pc' = "saved"]_vars
    /\ [](pc = "rename" => tmp_file = save_to_file(new_script_state))
    /\ [][pc = "saved" => state_file' = state_file]_vars

C24_Witness ==
    /\ pc = "crashed"
    /\ ~dry_run
    /\ tmp_file # None
    /\ ~IsComplete(tmp_file)
    /\ tmp_file[1].pieces = 1
    /\ state_file # None
    /\ state_file # save_to_file(new_script_state)

(* C26: a ScriptState written as a document and read back is the same
   state, from_json(to_json(s)) = s, for any seen list and a last alert
   that is absent or any number, also through the state file; a document
   that lacks a key loads with an empty seen list, or an absent last alert,
   in its place. *)
C26_StateRoundTrip ==
    /\ from_json(to_json(new_script_state)) = new_script_state
    /\ (pc = "reloaded" /\ state_file = save_to_file(new_script_state)) =>
           script_state = new_script_state
    /\ (pc \in {"save_call", "reloaded"} /\ state_file # None) =>
           LET document == state_file[1]
           IN  /\ script_state.seen_advisories =
                     IF "seen_advisories" \in DOMAIN document
                     THEN document.seen_advisories ELSE <<>>
               /\ script_state.last_alert_about_rotation =
                     IF "last_alert_about_rotation" \in DOMAIN document
                     THEN document.last_alert_about_rotation ELSE None
               /\ DOMAIN document = {} => script_state = ScriptState(<<>>, None)

C26_Witness ==
    /\ pc = "reloaded"
    /\ ~dry_run
    /\ write_to_file = StateFilePath
    /\ Len(new_script_state.seen_advisories) = 2
    /\ new_script_state.last_alert_about_rotation
         = Some(SECONDS_BETWEEN_ROTATION_REFRESH_EMAILS)
    /\ state_file = save_to_file(new_script_state)
    /\ script_state = new_script_state

----------------------------------------------------------------------------
(* load_rotation_state.  The rotation file and the members file are what
   rotations.RotationFile.parse_file and RotationMembersFile.parse_file
   return: the rotations in file order, the members list. *)

(* The loop: the last rotation before the first one that starts after now *)
RECURSIVE CurrentRotation(_, _, _, _)
CurrentRotation(rotations, now_timestamp, i, current_rotation) ==
    IF i > Len(rotations) THEN current_rotation
    ELSE IF rotations[i].start_time > now_timestamp THEN current_rotation
    ELSE CurrentRotation(rotations, now_timestamp, i + 1, Some(rotations[i]))

(* Mutant: a rotation that starts exactly now is not current yet *)
load_rotation_state_StrictlyBefore(now_timestamp, rotations, names) ==
    LET started == SelectSeq(rotations, LAMBDA r : r.start_time < now_timestamp)
    IN  IF started = <<>> THEN None
        ELSE Some(RotationState(SeqToSet(names),
                                SeqToSet(started[Len(started)].members),
                                rotations[Len(rotations)].start_time))

load_rotation_state(now_timestamp, rotations, names) ==
    LET current_rotation == CurrentRotation(rotations, now_timestamp, 1, None)
    IN  IF current_rotation = None THEN None
        ELSE Some(RotationState(SeqToSet(names),
                                SeqToSet(current_rotation[1].members),
                                rotations[Len(rotations)].start_time))

----------------------------------------------------------------------------
(* SpecLoad: load_rotation_state applied to any rotation file, members
   list and time *)

(* Before, at, between and after the starts of the rotations *)
LoadNows ==
    {0, Weeks(1) - 1, Weeks(1), Weeks(2), Weeks(3) - 1, Weeks(3), Weeks(3) + 1,
     Weeks(4)}

LoadInit ==
    /\ prior_rotations \in RotationFiles
    /\ members \in Lists(3)
    /\ clock \in LoadNows
    /\ rotation_length_weeks = 0
    /\ people_per_rotation = 0
    /\ when = 0
    /\ least_recent_assignees = <<>>
    /\ next_rotation_start_time = 0
    /\ generated = <<>>
    /\ rotations_needed = <<>>
    /\ github_advisories = {}
    /\ rotation_state = None
    /\ dry_run = FALSE
    /\ script_state = ScriptState(<<>>, None)
    /\ new_script_state = script_state
    /\ emails = <<>>
    /\ prev_emails = <<>>
    /\ alerts = <<>>
    /\ prev_alerts = <<>>
    /\ state_file = None
    /\ tmp_file = None
    /\ write_to_file = None
    /\ skipped_on_call = {}
    /\ delivered = NoDelivery
    /\ failed_before = {}
    /\ prev_clock = clock
    /\ pc = "load_call"

LoadRotationState ==
    /\ pc = "load_call"
    /\ rotation_state' = load_rotation_state(clock, prior_rotations, members)
    /\ pc' = "load_ret"
    /\ UNCHANGED <<clock, github_advisories, dry_run, script_state,
                   new_script_state, emails, prev_emails, alerts, prev_alerts,
                   state_file, tmp_file, write_to_file, skipped_on_call,
                   delivered, failed_before, prev_clock>>
    /\ UNCHANGED extendVars

LoadNext == LoadRotationState

SpecLoad == LoadInit /\ [][LoadNext]_vars

(* The rotations that have started at or before now *)
StartedRotations ==
    {i \in 1..Len(prior_rotations) : prior_rotations[i].start_time <= clock}
LatestStarted ==
    CHOOSE i \in StartedRotations :
        \A j \in StartedRotations :
            prior_rotations[j].start_time <= prior_rotations[i].start_time

(* C25: for a rotation file in strictly increasing order of start time,
   load_rotation_state(now) has as current members those of the latest
   rotation that starts at or before now, as final_rotation_start the start
   of the last rotation of the file and as all_members the members list;
   it returns None when no rotation has started at or before now. *)
C25_CurrentIsLatestStarted ==
    pc = "load_ret" =>
        IF StartedRotations = {} THEN rotation_state = None
        ELSE /\ rotation_state # None
             /\ rotation_state[1].current_members =
                    SeqToSet(prior_rotations[LatestStarted].members)
             /\ rotation_state[1].final_rotation_start =
                    prior_rotations[Len(prior_rotations)].start_time
             /\ rotation_state[1].all_members = SeqToSet(members)

C25_Witness ==
    /\ pc = "load_ret"
    /\ Len(prior_rotations) = 2
    /\ clock = prior_rotations[1].start_time
    /\ rotation_state # None
    /\ rotation_state[1].current_members # SeqToSet(prior_rotations[2].members)
    /\ rotation_state[1].final_rotation_start = prior_rotations[2].start_time
    /\ rotation_state[1].final_rotation_start > clock

----------------------------------------------------------------------------
(* extend_rotation.py: main *)

(* list(itertools.islice(generator, n)) with the generator in the state
   (deque, start): the first n rotations it yields, or its IndexError *)
RECURSIVE Islice(_, _, _, _, _)
Islice(deque, start, weeks, people, n) ==
    IF n <= 0 THEN Returns(<<>>)
    ELSE IF Len(deque) < people THEN Raises("IndexError")
    ELSE LET people_on_this_rotation == PopLeft(deque, people)
             rest == Islice(Extend(deque, people_on_this_rotation),
                            start + Weeks(weeks), weeks, people, n - 1)
         IN  IF rest.raised # "" THEN rest
             ELSE Returns(<<Rotation(start, people_on_this_rotation)>>
                          \o rest.value)

(* generate_additional_rotations(prior, names, weeks, people, now), asked
   for n rotations *)
generate_additional_rotations(prior, names, weeks, people, now, n) ==
    LET last_service_times == find_most_recent_service_times(prior, names)
        sorted == SortedByTime(last_service_times, Len(last_service_times))
        deque == [i \in 1..Len(sorted) |-> sorted[i][1]]
    IN  Islice(deque, FirstStart(prior, weeks, now), weeks, people, n)

(* The default of main when neither --num-rotations nor --ensure-weeks is
   given *)
DefaultRotations == 5

(* num_rotations_to_add, from the flags *)
NumRotationsToAdd(num_rotations, ensure_weeks, weeks, now, current_rotations) ==
    IF num_rotations # None THEN Returns(num_rotations[1])
    ELSE IF ensure_weeks # None
    THEN calculate_rotations_to_cover(now + Weeks(ensure_weeks[1]), weeks,
                                      current_rotations)
    ELSE Returns(DefaultRotations)

(* The call of the generator in main: after the rotations and the members
   come people_per_rotation and rotation_length_weeks, in this order, for
   the parameters rotation_length_weeks and people_per_rotation *)
ExtraRotations(current_rotations, names, people, weeks, now, n) ==
    generate_additional_rotations(current_rotations, names, people, weeks,
                                  now, n)

----------------------------------------------------------------------------
(* SpecExtendMain: one invocation of extend_rotation.py on any rotation
   file, members list and flags *)

RotationFlags ==
    {[num_rotations |-> n, ensure_weeks |-> None] :
        n \in {None, Some(0), Some(1), Some(2)}}
    \cup {[num_rotations |-> None, ensure_weeks |-> Some(w)] : w \in {0, 2, 3}}

ExtendMainInit ==
    /\ prior_rotations \in RotationFiles
    /\ members \in Lists(3)
    /\ rotation_length_weeks \in 1..2
    /\ people_per_rotation \in 1..2
    /\ dry_run \in BOOLEAN
    /\ clock \in IF prior_rotations = <<>>
                 THEN {Weeks(5) + 4 * SecondsPerDay + 15 * 60 * 60}
                 ELSE {Weeks(5)}
    /\ when = 0
    /\ least_recent_assignees = <<>>
    /\ next_rotation_start_time = 0
    /\ generated = <<>>
    /\ rotations_needed = <<>>
    /\ github_advisories = {}
    /\ rotation_state = None
    /\ script_state = ScriptState(<<>>, None)
    /\ new_script_state = script_state
    /\ emails = <<>>
    /\ prev_emails = <<>>
    /\ alerts = <<>>
    /\ prev_alerts = <<>>
    /\ state_file = None
    /\ tmp_file = None
    /\ write_to_file = None
    /\ skipped_on_call = {}
    /\ delivered = NoDelivery
    /\ failed_before = {}
    /\ prev_clock = clock
    /\ pc = "main_call"

(* main: the number of rotations to add, the extra rotations, and the
   write of the rotation file unless --dry-run.  An exception of
   calculate_rotations_to_cover or of the generator ends main before the
   write; so does a count of 0 with --ensure-weeks. *)
ExtendMain ==
    /\ pc = "main_call"
    /\ \E flags \in RotationFlags :
        \E count \in {NumRotationsToAdd(flags.num_rotations, flags.ensure_weeks,
                                         rotation_length_weeks, clock,
                                         prior_rotations)} :
          /\ rotations_needed' = count
          /\ when' = IF flags.ensure_weeks # None
                     THEN clock + Weeks(flags.ensure_weeks[1]) ELSE 0
          /\ IF count.raised # ""
             THEN /\ pc' = "main_raised"
                  /\ UNCHANGED <<generated, prior_rotations>>
             ELSE IF flags.ensure_weeks # None /\ count.value = 0
             THEN /\ pc' = "main_covered"
                  /\ UNCHANGED <<generated, prior_rotations>>
             ELSE \E extra \in {ExtraRotations(prior_rotations, members,
                                                people_per_rotation,
                                                rotation_length_weeks, clock,
                                                count.value)} :
                    IF extra.raised # ""
                    THEN /\ pc' = "main_raised"
                         /\ UNCHANGED <<generated, prior_rotations>>
                    ELSE /\ pc' = "main_done"
                         /\ generated' = extra.value
                         /\ prior_rotations' =
                              IF dry_run THEN prior_rotations
                              ELSE prior_rotations \o extra.value
    /\ UNCHANGED <<members, rotation_length_weeks, people_per_rotation,
                   least_recent_assignees, next_rotation_start_time, clock>>
    /\ UNCHANGED emailVars

ExtendMainNext == ExtendMain

SpecExtendMain == ExtendMainInit /\ [][ExtendMainNext]_vars

----------------------------------------------------------------------------
(* Further claims on main *)

AllSent == [id \in TrackedIds |-> TRUE]

(* What a real run, every send of which succeeds, makes of the loaded state *)
RealRunState ==
    IF rotation_state = None THEN script_state
    ELSE maybe_email_about_rotation_end(
             ScriptInvocation(clock, EmailInfo(FALSE)),
             run_script(ScriptInvocation(clock, EmailInfo(FALSE)), script_state,
                        rotation_state[1], github_advisories, AllSent).state,
             rotation_state, TRUE).state

DryRunDone == pc = "done" /\ dry_run

(* C22: a dry run of main takes every decision of run_script and of
   maybe_email_about_rotation_end (it computes the state a real run with
   successful sends would) and sends nothing; it never writes the state
   file: a changed state goes to the ".dry-run" path only, so the state the
   next real run loads is what it was before the dry runs. *)
C22_DryRunLeavesStateFile ==
    /\ [](DryRunDone =>
            /\ emails = <<>>
            /\ alerts = <<>>
            /\ new_script_state = RealRunState
            /\ write_to_file =
                  IF new_script_state = script_state THEN None
                  ELSE with_suffix(StateFilePath, ".dry-run")
            /\ write_to_file # StateFilePath)
    /\ [][(pc = "idle" /\ dry_run') =>
            /\ state_file' = state_file
            /\ load_from_file(state_file') = load_from_file(state_file)]_vars

C22_Witness ==
    /\ DryRunDone
    /\ \E id \in TrackedIds : Pending(id)
    /\ new_script_state # script_state
    /\ new_script_state.last_alert_about_rotation = Some(clock)
    /\ write_to_file = <<"state", ".dry-run">>
    /\ state_file = None

(* C23: when fetching the open advisories fails, its retries used up,
   main stops before any advisory notification and before the alert about
   the schedule, and writes nothing: the state file is what it was before
   the run. *)
C23_FetchFailureAborts ==
    /\ [](pc = "aborted" =>
            /\ emails = <<>>
            /\ alerts = <<>>
            /\ write_to_file = None
            /\ new_script_state = Persisted)
    /\ [][pc' = "aborted" =>
            /\ state_file' = state_file
            /\ tmp_file' = tmp_file
            /\ delivered' = delivered]_vars
    /\ \A responses \in Responses :
         requests_get_with_retry(responses).raised # ""
             <=> \A i \in 1..max_retries + 1 : ~responses[i]

C23_Witness ==
    /\ pc = "aborted"
    /\ ~dry_run
    /\ \E id \in TrackedIds : Pending(id)
    /\ state_file # None
    /\ ~TooEarly(rotation_state, clock)
    /\ ~AlertedRecently(Persisted, clock)

(* C28: an invocation of main whose schedule is absent, or has no rotation
   that started at or before now, still comes to the alert about the
   schedule: unless an alert was sent within the cooldown, one alert is
   sent and, when the send succeeds, its time is recorded. *)
C28_AbsentScheduleStillAlerts ==
    (pc = "done" /\ ~dry_run /\ rotation_state = None /\ ~InCooldown) =>
        /\ Len(alerts) = 1
        /\ alerts[1].ok =>
             new_script_state.last_alert_about_rotation = Some(clock)

(* C30: an advisory that a real run skipped because one of its
   collaborators was on call is recorded as seen, and stays so while it is
   open: no later run sends a notification for it, not even when the
   on-call set no longer has any of its collaborators. *)
C30_SkippedNeverNotified ==
    \A id \in skipped_on_call :
        /\ IsOpen(id)
        /\ id \in SeenIn(Persisted)
        /\ id \notin SentFor(emails)

C30_Witness ==
    /\ pc = "done"
    /\ ~dry_run
    /\ \E id \in skipped_on_call :
         /\ NobodyOnCall(id)
         /\ id \in SeenIn(script_state)
         /\ emails = <<>>
         /\ delivered[id] = 0

(* C29: the rotations that main of extend_rotation.py appends each have
   exactly --people-per-rotation members and start exactly
   --rotation-length-weeks weeks apart, whatever the two flags are, equal
   or not; so after a run with --ensure-weeks the last rotation written
   ends at or after now + ensure-weeks. *)
C29_FlagsGiveSizeAndSpacing ==
    pc = "main_done" =>
        /\ \A k \in 1..Len(generated) :
               Len(generated[k].members) = people_per_rotation
        /\ \A k \in 2..Len(generated) :
               generated[k].start_time - generated[k - 1].start_time
                   = Weeks(rotation_length_weeks)
        /\ (when # 0 /\ ~dry_run) =>
               prior_rotations[Len(prior_rotations)].start_time
                   + Weeks(rotation_length_weeks) >= when

====
